---- MODULE Spec2Model ----
(***************************************************************************)
(* Model of scripts/setup-branch-protection.py: one run of the script,     *)
(* from the module-level configuration to the process exit.                *)
(*                                                                         *)
(* Python strings that the script parses (remote URL, owner, repo, the     *)
(* prompt answer) are sequences of one-character strings, so that `in`,    *)
(* str.replace, str.split, str.strip and str.lower are computed as the     *)
(* script computes them.  The run is cut into steps at the four blocking   *)
(* calls (git subprocess, input(), requests.put, requests.get); a          *)
(* KeyboardInterrupt is delivered while the run is blocked in one of them. *)
(*                                                                         *)
(* In the repository every line of the script carries a "# " prefix; the   *)
(* model is of the program text behind that prefix, at the same line       *)
(* numbers.                                                                *)
(***************************************************************************)
EXTENDS Integers, Sequences, FiniteSets, TLC

VARIABLES
    OWNER,          \* module constant OWNER = os.getenv("GITHUB_OWNER", "")
    REPO,           \* module constant REPO = os.getenv("GITHUB_REPO", "")
    GITHUB_TOKEN,   \* module constant GITHUB_TOKEN = os.getenv("GITHUB_TOKEN", "")
    config,         \* module global PROTECTION_CONFIG
    pc,             \* where the run is: start, git, prompt, put, get, done
    owner,          \* local of main()
    repo,           \* local of main()
    cli,            \* what the git subprocess did (input of get_repo_info)
    info,           \* what get_repo_info() did: returned pair or raised
    gitCalls,       \* number of subprocess.run invocations
    response,       \* the line read by input()
    net,            \* log of the HTTP requests issued, in order
    putResult,      \* what requests.put did
    getResult,      \* what requests.get did
    out,            \* lines printed through print_error/_warning/_info/_success/_header
    exc,            \* exception that left main(), "" if none
    traceback,      \* TRUE iff the interpreter printed a stack trace
    exitCode        \* process exit code, meaningful when pc = "done"

vars == <<OWNER, REPO, GITHUB_TOKEN, config, pc, owner, repo, cli, info, gitCalls,
          response, net, putResult, getResult, out, exc, traceback, exitCode>>

(***************************************************************************)
(* String literals of the script, as character sequences.                  *)
(***************************************************************************)
HTTPS == <<"h","t","t","p","s",":","/","/">>

GITHUB_COM == <<"g","i","t","h","u","b",".","c","o","m">>

GITHUB_COM_SLASH == GITHUB_COM \o <<"/">>

DOT_GIT == <<".","g","i","t">>

SLASH == <<"/">>

COLON == <<":">>

EMPTY == <<>>

BRANCH == "master"

Whitespace == {" ", "\n", "\t"}

(***************************************************************************)
(* Python str operations.                                                  *)
(***************************************************************************)
\* index of the first occurrence of sub in s, 0 if there is none (str.find + 1)
Find(s, sub) ==
    LET hits == {i \in 1..(Len(s) - Len(sub) + 1) : SubSeq(s, i, i + Len(sub) - 1) = sub}
    IN  IF hits = {} THEN 0 ELSE CHOOSE i \in hits : \A j \in hits : i <= j

\* sub in s
Contains(s, sub) == Find(s, sub) # 0

\* s.replace(old, new): every non-overlapping occurrence, left to right
RECURSIVE Replace(_, _, _)
Replace(s, old, new) ==
    LET i == Find(s, old)
    IN  IF i = 0 THEN s
        ELSE SubSeq(s, 1, i - 1) \o new \o Replace(SubSeq(s, i + Len(old), Len(s)), old, new)

\* s.split(sep): always at least one piece
RECURSIVE Split(_, _)
Split(s, sep) ==
    LET i == Find(s, sep)
    IN  IF i = 0 THEN <<s>>
        ELSE <<SubSeq(s, 1, i - 1)>> \o Split(SubSeq(s, i + Len(sep), Len(s)), sep)

\* s.strip()
RECURSIVE Strip(_)
Strip(s) ==
    IF s = <<>> THEN s
    ELSE IF Head(s) \in Whitespace THEN Strip(Tail(s))
    ELSE IF s[Len(s)] \in Whitespace THEN Strip(SubSeq(s, 1, Len(s) - 1))
    ELSE s

\* str.lower() on one character, over the alphabet of the modelled answers
LowerChar(c) ==
    CASE c = "Y" -> "y"
      [] c = "E" -> "e"
      [] c = "S" -> "s"
      [] c = "N" -> "n"
      [] c = "O" -> "o"
      [] OTHER -> c

\* s.lower()
Lower(s) == [i \in 1..Len(s) |-> LowerChar(s[i])]

Range(s) == {s[i] : i \in 1..Len(s)}

(***************************************************************************)
(* get_repo_info(): the subprocess outcome `c` is                          *)
(*   kind = "ok"                  git printed c.stdout and exited 0        *)
(*   kind = "CalledProcessError"  git exited non-zero (check=True raises)  *)
(*   kind = "FileNotFoundError"   the git binary could not be started      *)
(* The result is [raised, none, owner, repo]: raised names the exception   *)
(* that escapes the function ("" if it returned), none is TRUE when it     *)
(* returned (None, None).                                                  *)
(***************************************************************************)
ReturnNone == [raised |-> "", none |-> TRUE, owner |-> EMPTY, repo |-> EMPTY]

ReturnPair(o, r) == [raised |-> "", none |-> FALSE, owner |-> o, repo |-> r]

Raise(e) == [raised |-> e, none |-> FALSE, owner |-> EMPTY, repo |-> EMPTY]

\* line 106: the suffix removal
RemoveGitSuffix(url) == Replace(url, DOT_GIT, EMPTY)

\* lines 104-119: parsing of the remote URL
ParseRemote(remote_url) ==
    IF Contains(remote_url, GITHUB_COM)
    THEN LET url == RemoveGitSuffix(remote_url)
             outer == IF Contains(url, HTTPS) THEN Split(url, GITHUB_COM_SLASH)
                                              ELSE Split(url, COLON)
         IN  IF Len(outer) < 2 THEN Raise("IndexError")
             ELSE LET parts == Split(outer[2], SLASH)
                  IN  IF Len(parts) >= 2 THEN ReturnPair(parts[1], parts[2])
                                         ELSE ReturnNone
    ELSE ReturnNone

\* except clause of get_repo_info: which exceptions of subprocess.run it handles
GitErrorHandled(kind) == kind = "CalledProcessError"

get_repo_info(c) ==
    IF c.kind = "ok" THEN ParseRemote(Strip(c.stdout))
    ELSE IF GitErrorHandled(c.kind) THEN ReturnNone
    ELSE Raise(c.kind)


(***************************************************************************)
(* Printed lines: <<marker, text, interpolated value>>, all strings.       *)
(***************************************************************************)
print_header(text) == <<"header", text, "">>

print_success(text) == <<"success", text, "">>

print_error(text, arg) == <<"error", text, arg>>

print_warning(text) == <<"warning", text, "">>

print_info(text) == <<"info", text, "">>

print(text) == <<"plain", text, "">>

(***************************************************************************)
(* PROTECTION_CONFIG (None is the string "None", {} the empty function).   *)
(***************************************************************************)
PROTECTION_CONFIG ==
    [ required_status_checks |-> [strict |-> TRUE, contexts |-> <<"quality", "deploy">>],
      enforce_admins |-> TRUE,
      required_pull_request_reviews |->
          [ dismiss_stale_reviews |-> TRUE,
            require_code_owner_reviews |-> FALSE,
            required_approving_review_count |-> 1,
            require_last_push_approval |-> TRUE,
            dismissal_restrictions |-> <<>> ],
      restrictions |-> "None",
      required_linear_history |-> TRUE,
      allow_force_pushes |-> FALSE,
      allow_deletions |-> FALSE,
      required_conversation_resolution |-> TRUE,
      lock_branch |-> FALSE,
      allow_fork_syncing |-> TRUE ]

(***************************************************************************)
(* The two HTTP requests.                                                  *)
(***************************************************************************)
\* the f-string of lines 138 and 175, piece by piece
ProtectionUrl(o, r, branch) ==
    <<"https://api.github.com/repos/", o, "/", r, "/branches/", branch, "/protection">>

\* lines 140 and 177
Headers(token) ==
    [ Accept |-> "application/vnd.github+json",
      Authorization |-> <<"Bearer ", token>>,
      ApiVersion |-> "2022-11-28" ]

PutRequest_coordsInBody(o, r, branch, token, cfg) ==
    [ method |-> "PUT", url |-> ProtectionUrl(o, r, branch), headers |-> Headers(token),
      json |-> [repository |-> <<o, r>>] @@ cfg, timeout |-> 30 ]

\* line 146: requests.put(url, headers=headers, json=PROTECTION_CONFIG, timeout=30)
PutRequest(o, r, branch, token, cfg) ==
    [ method |-> "PUT", url |-> ProtectionUrl(o, r, branch), headers |-> Headers(token),
      json |-> cfg, timeout |-> 30 ]

\* line 184: requests.get(url, headers=headers, timeout=30)
GetRequest(o, r, branch, token) ==
    [ method |-> "GET", url |-> ProtectionUrl(o, r, branch), headers |-> Headers(token),
      timeout |-> 30 ]

(***************************************************************************)
(* apply_branch_protection, after requests.put has finished with `r`:      *)
(*   r.kind = "response"          an HTTP response with r.status, r.text   *)
(*   r.kind = "RequestException"  requests raised (connection, timeout...) *)
(* Result: the function's return value and the lines it printed.           *)
(***************************************************************************)
apply_branch_protection_swapped(r) ==
    IF r.kind = "RequestException"
    THEN [success |-> FALSE, out |-> <<print_error("Request failed: ", r.text)>>]
    ELSE IF r.status = 200
    THEN [success |-> TRUE, out |-> <<print_success("Branch protection applied successfully!")>>]
    ELSE IF r.status = 401
    THEN [success |-> FALSE,
          out |-> <<print_error("Authentication failed. Check your GITHUB_TOKEN.", ""),
                    print_info("Generate a token at: https://github.com/settings/tokens"),
                    print_info("Required scopes: repo (full control)")>>]
    ELSE IF r.status = 404
    THEN [success |-> FALSE,
          out |-> <<print_error("Permission denied. You need admin access to this repository.", "")>>]
    ELSE [success |-> FALSE,
          out |-> <<print_error("Failed with status code: ", ToString(r.status)),
                    print_error("Response: ", r.text)>>]

\* lines 145-170
apply_branch_protection(r) ==
    IF r.kind = "RequestException"
    THEN [success |-> FALSE, out |-> <<print_error("Request failed: ", r.text)>>]
    ELSE IF r.status = 200
    THEN [success |-> TRUE, out |-> <<print_success("Branch protection applied successfully!")>>]
    ELSE IF r.status = 401
    THEN [success |-> FALSE,
          out |-> <<print_error("Authentication failed. Check your GITHUB_TOKEN.", ""),
                    print_info("Generate a token at: https://github.com/settings/tokens"),
                    print_info("Required scopes: repo (full control)")>>]
    ELSE IF r.status = 403
    THEN [success |-> FALSE,
          out |-> <<print_error("Permission denied. You need admin access to this repository.", "")>>]
    ELSE IF r.status = 404
    THEN [success |-> FALSE,
          out |-> <<print_error("Repository or branch not found: ", "owner/repo/branch"),
                    print_info("Make sure the branch exists and you have access.")>>]
    ELSE [success |-> FALSE,
          out |-> <<print_error("Failed with status code: ", ToString(r.status)),
                    print_error("Response: ", r.text)>>]

(***************************************************************************)
(* JSON values returned by response.json(), tagged with their Python type. *)
(***************************************************************************)
JDict(f) == [t |-> "dict", v |-> f]

JList(l) == [t |-> "list", v |-> l]

JBool(b) == [t |-> "bool", v |-> b]

JInt(n) == [t |-> "int", v |-> n]

JNull == [t |-> "NoneType", v |-> 0]

\* only dict has a .get method
HasGet(x) == x.t = "dict"

\* d.get(k, default) for a dict d
PyGet(d, k, default) == IF k \in DOMAIN d.v THEN d.v[k] ELSE default

\* bodies of a 200 answer to the GET, by name
Body(name) ==
    CASE name = "policy" ->
            JDict([ required_status_checks |->
                        JDict([strict |-> JBool(TRUE), contexts |-> JList(<<"quality", "deploy">>)]),
                    required_pull_request_reviews |->
                        JDict([required_approving_review_count |-> JInt(1)]),
                    enforce_admins |-> JDict([enabled |-> JBool(TRUE)]),
                    required_linear_history |-> JDict([enabled |-> JBool(TRUE)]) ])
      [] name = "empty_object" -> JDict(<<>>)
      [] name = "array" -> JList(<<>>)
      [] name = "flat_flags" ->
            JDict([ enforce_admins |-> JBool(TRUE), required_linear_history |-> JBool(TRUE) ])
      [] name = "null_checks" ->
            JDict([ required_status_checks |-> JNull ])

\* the four data.get(k1, {}).get(k2, default) chains of lines 191-194
DigestKeys == {"required_status_checks", "required_pull_request_reviews",
               "enforce_admins", "required_linear_history"}

\* TRUE iff evaluating lines 191-194 raises AttributeError
DigestRaises(data) ==
    \/ ~HasGet(data)
    \/ \E k \in DigestKeys : ~HasGet(PyGet(data, k, JDict(<<>>)))

(***************************************************************************)
(* verify_protection, after requests.get has finished with `r`:            *)
(*   r.kind = "response"          an HTTP response, r.status, r.body       *)
(*   r.kind = "RequestException"  requests raised                          *)
(* r.body = "unparseable" makes response.json() raise the JSON decode      *)
(* error of the installed requests: a RequestException subclass (2.27 and  *)
(* later, r.jsonErrorIsRequestException) or a plain ValueError (earlier).  *)
(* Result: the exception leaving the function ("" if none) and the lines.  *)
(***************************************************************************)
verify_protection(r) ==
    IF r.kind = "RequestException"
    THEN [raised |-> "",
          out |-> <<print_warning("Verification request failed (settings may still be applied)")>>]
    ELSE IF r.status = 200
    THEN IF r.body = "unparseable"
         THEN IF r.jsonErrorIsRequestException
              THEN [raised |-> "",
                    out |-> <<print_warning("Verification request failed (settings may still be applied)")>>]
              ELSE [raised |-> "JSONDecodeError", out |-> <<>>]
         ELSE IF DigestRaises(Body(r.body))
              THEN [raised |-> "AttributeError",
                    out |-> <<print_success("Verification successful"), print("Current settings:")>>]
              ELSE [raised |-> "",
                    out |-> <<print_success("Verification successful"), print("Current settings:"),
                              print("digest")>>]
    ELSE [raised |-> "",
          out |-> <<print_warning("Unable to verify settings (may still be applied)")>>]

(***************************************************************************)
(* main() and the __main__ guard.                                          *)
(***************************************************************************)
\* line 211: if not owner or not repo
NeedsDetection_both(o, r) == o = EMPTY /\ r = EMPTY

NeedsDetection(o, r) == o = EMPTY \/ r = EMPTY

\* line 215: if not owner or not repo (None and "" are both falsy)
DetectionFailed(i) == i.none \/ i.owner = EMPTY \/ i.repo = EMPTY

\* line 225: if not GITHUB_TOKEN
TokenMissing_never(token) == FALSE

TokenMissing(token) == token = ""

\* line 264: response.lower() in ["y", "yes"]
Affirmative_notNo(line) == Lower(line) \notin {<<"n">>, <<"n","o">>}

Affirmative(line) == Lower(line) \in {<<"y">>, <<"y","e","s">>}

\* line 273: if success
ProceedToVerify_always(applied) == TRUE

ProceedToVerify(applied) == applied.success

\* lines 297-302, and the interpreter's handling of any other exception
\* that leaves main(): stack trace, exit code 1
MainGuard_unhandled(e) ==
    [code |-> IF e = "KeyboardInterrupt" THEN 130 ELSE 1, traceback |-> TRUE, notice |-> <<>>]

MainGuard(e) ==
    IF e = "KeyboardInterrupt"
    THEN [code |-> 0, traceback |-> FALSE, notice |-> <<print_warning("Cancelled by user")>>]
    ELSE [code |-> 1, traceback |-> TRUE, notice |-> <<>>]

\* an exception e leaves main()
Leave(e, printed) ==
    LET g == MainGuard(e)
    IN  /\ pc' = "done"
        /\ exc' = e
        /\ exitCode' = g.code
        /\ traceback' = g.traceback
        /\ out' = printed \o g.notice

\* sys.exit(code), or main() returning (code 0)
SysExit(code, printed) ==
    /\ pc' = "done"
    /\ exitCode' = code
    /\ out' = printed
    /\ UNCHANGED <<exc, traceback>>

\* lines 224-263: credential check, display of the policy, then block on input()
CredentialStep(printed) ==
    IF TokenMissing(GITHUB_TOKEN)
    THEN SysExit(1, printed \o <<print_error("GITHUB_TOKEN environment variable not set", "")>>)
    ELSE /\ pc' = "prompt"
         /\ out' = printed \o <<print("Configuration to be applied:")>>
         /\ UNCHANGED <<exc, traceback, exitCode>>

(***************************************************************************)
(* Inputs of a run.                                                        *)
(***************************************************************************)
EnvOwners == {EMPTY, <<"e">>}

EnvRepos == {EMPTY, <<"p">>}

EnvTokens == {"", "ghp_token"}

GITLAB_COM == <<"g","i","t","l","a","b",".","c","o","m">>

GIT_AT == <<"g","i","t","@">>

Hosts == {GITHUB_COM, GITLAB_COM}

Owners == {<<"o">>, <<"o","c","t","o">>}

Repos == {<<"r">>, <<"m","y",".","g","i","t","h","u","b",".","i","o">>}

Suffixes == {EMPTY, DOT_GIT}

\* https://<host>/<owner>/<repo>[.git] and git@<host>:<owner>/<repo>[.git]
UrlOf(style, host, o, r, suffix) ==
    IF style = "https" THEN HTTPS \o host \o SLASH \o o \o SLASH \o r \o suffix
                       ELSE GIT_AT \o host \o COLON \o o \o SLASH \o r \o suffix

\* remote URLs that are of neither form
OtherUrls ==
    { HTTPS \o GITHUB_COM,                                              \* https://github.com
      <<"/","s","r","v","/">> \o GITHUB_COM \o <<"/","r">>,             \* /srv/github.com/r
      <<"h","t","t","p",":","/","/">> \o GITHUB_COM \o <<"/","o","/","r">>,  \* http://github.com/o/r
      GIT_AT \o GITHUB_COM \o COLON \o <<"r">>,                         \* git@github.com:r
      <<"/","s","r","v","/","r">> }                                     \* /srv/r

\* git prints the URL followed by a newline
CliOutcomes ==
    { [kind |-> "ok", form |-> style, host |-> h, owner |-> o, repo |-> r,
       stdout |-> UrlOf(style, h, o, r, x) \o <<"\n">>]
        : style \in {"https", "ssh"}, h \in Hosts, o \in Owners, r \in Repos, x \in Suffixes }
    \cup { [kind |-> "ok", form |-> "other", host |-> EMPTY, owner |-> EMPTY, repo |-> EMPTY,
            stdout |-> u \o <<"\n">>] : u \in OtherUrls }
    \cup { [kind |-> k, form |-> "none", host |-> EMPTY, owner |-> EMPTY, repo |-> EMPTY,
            stdout |-> EMPTY] : k \in {"CalledProcessError", "FileNotFoundError"} }

NoCli == [kind |-> "not run", form |-> "none", host |-> EMPTY, owner |-> EMPTY, repo |-> EMPTY,
          stdout |-> EMPTY]

NoInfo == [raised |-> "", none |-> FALSE, owner |-> EMPTY, repo |-> EMPTY]

PromptInputs ==
    { [kind |-> "line", text |-> t] :
        t \in { <<"y">>, <<"Y">>, <<"y","e","s">>, <<"Y","E","S">>, <<"Y","e","s">>,
                <<"n">>, <<"N","o">>, EMPTY, <<"y","e">>, <<" ","y">>, <<"o","k">> } }
    \cup { [kind |-> "EOFError", text |-> EMPTY] }

NoInput == [kind |-> "not read", text |-> EMPTY]

Statuses == {200, 201, 401, 403, 404, 500}

PutOutcomes ==
    { [kind |-> "response", status |-> st, text |-> "body"] : st \in Statuses }
    \cup { [kind |-> "RequestException", status |-> 0, text |-> "cause"] }

NoResult == [kind |-> "none", status |-> 0]

BodyNames == {"policy", "empty_object", "array", "flat_flags", "null_checks", "unparseable"}

GetOutcomes ==
    { [kind |-> "response", status |-> 200, body |-> b, jsonErrorIsRequestException |-> j]
        : b \in BodyNames, j \in BOOLEAN }
    \cup { [kind |-> "response", status |-> st, body |-> "policy", jsonErrorIsRequestException |-> TRUE]
        : st \in Statuses \ {200} }
    \cup { [kind |-> "RequestException", status |-> 0, body |-> "policy",
            jsonErrorIsRequestException |-> TRUE] }

(***************************************************************************)
(* The run.                                                                *)
(***************************************************************************)
Init ==
    /\ OWNER \in EnvOwners
    /\ REPO \in EnvRepos
    /\ GITHUB_TOKEN \in EnvTokens
    /\ config = PROTECTION_CONFIG
    /\ pc = "start"
    /\ owner = EMPTY
    /\ repo = EMPTY
    /\ cli = NoCli
    /\ info = NoInfo
    /\ gitCalls = 0
    /\ response = NoInput
    /\ net = <<>>
    /\ putResult = NoResult
    /\ getResult = NoResult
    /\ out = <<>>
    /\ exc = ""
    /\ traceback = FALSE
    /\ exitCode = 0

\* lines 204-213 (and 224-263 when no detection is needed)
Start ==
    /\ pc = "start"
    /\ owner' = OWNER
    /\ repo' = REPO
    /\ IF NeedsDetection(OWNER, REPO)
       THEN /\ pc' = "git"
            /\ gitCalls' = gitCalls + 1
            /\ out' = out \o <<print_header("Branch Protection Setup"),
                               print_info("Auto-detecting repository from git remote...")>>
            /\ UNCHANGED <<exc, traceback, exitCode>>
       ELSE /\ CredentialStep(out \o <<print_header("Branch Protection Setup")>>)
            /\ UNCHANGED gitCalls
    /\ UNCHANGED <<OWNER, REPO, GITHUB_TOKEN, config, cli, info, response, net,
                   putResult, getResult>>

\* the git subprocess finishes: rest of get_repo_info, lines 213-222, then 224-263
GitReturns ==
    /\ pc = "git"
    /\ \E c \in CliOutcomes :
        LET i == get_repo_info(c)
        IN  /\ cli' = c
            /\ info' = i
            /\ IF i.raised # ""
               THEN /\ Leave(i.raised, out)
                    /\ UNCHANGED <<owner, repo>>
               ELSE /\ owner' = i.owner
                    /\ repo' = i.repo
                    /\ IF DetectionFailed(i)
                       THEN SysExit(1, out \o
                                <<print_error("Unable to detect repository. Please set GITHUB_OWNER and GITHUB_REPO", ""),
                                  print("Usage:")>>)
                       ELSE CredentialStep(out)
    /\ UNCHANGED <<OWNER, REPO, GITHUB_TOKEN, config, gitCalls, response, net,
                   putResult, getResult>>

\* input() finishes: lines 263-271 and 138-146 (the PUT is sent)
PromptReturns ==
    /\ pc = "prompt"
    /\ \E a \in PromptInputs :
        /\ response' = a
        /\ IF a.kind = "EOFError"
           THEN /\ Leave("EOFError", out)
                /\ UNCHANGED net
           ELSE IF ~Affirmative(a.text)
           THEN /\ SysExit(0, out \o <<print_warning("Cancelled")>>)
                /\ UNCHANGED net
           ELSE /\ pc' = "put"
                /\ net' = Append(net, PutRequest(owner, repo, BRANCH, GITHUB_TOKEN, config))
                /\ out' = out \o <<print("Applying branch protection...")>>
                /\ UNCHANGED <<exc, traceback, exitCode>>
    /\ UNCHANGED <<OWNER, REPO, GITHUB_TOKEN, config, owner, repo, cli, info, gitCalls,
                   putResult, getResult>>

\* requests.put finishes: lines 148-170, 273-293 and 175-184 (the GET is sent)
PutReturns ==
    /\ pc = "put"
    /\ \E r \in PutOutcomes :
        LET applied == apply_branch_protection(r)
        IN  /\ putResult' = r
            /\ IF ProceedToVerify(applied)
               THEN /\ pc' = "get"
                    /\ net' = Append(net, GetRequest(owner, repo, BRANCH, GITHUB_TOKEN))
                    /\ out' = out \o applied.out \o
                                <<print("Summary:"), print("Verifying configuration...")>>
                    /\ UNCHANGED <<exc, traceback, exitCode>>
               ELSE /\ SysExit(1, out \o applied.out \o <<print_header("Setup Failed")>>)
                    /\ UNCHANGED net
    /\ UNCHANGED <<OWNER, REPO, GITHUB_TOKEN, config, owner, repo, cli, info, gitCalls,
                   response, getResult>>

\* requests.get finishes: lines 186-199 and 288-289, main() returns
GetReturns ==
    /\ pc = "get"
    /\ \E r \in GetOutcomes :
        LET v == verify_protection(r)
        IN  /\ getResult' = r
            /\ IF v.raised # ""
               THEN Leave(v.raised, out \o v.out)
               ELSE SysExit(0, out \o v.out \o <<print_header("Setup Complete!")>>)
    /\ UNCHANGED <<OWNER, REPO, GITHUB_TOKEN, config, owner, repo, cli, info, gitCalls,
                   response, net, putResult>>

\* SIGINT while blocked in the subprocess, input() or an HTTP call: lines 297-302
Interrupt ==
    /\ pc \in {"git", "prompt", "put", "get"}
    /\ Leave("KeyboardInterrupt", out)
    /\ UNCHANGED <<OWNER, REPO, GITHUB_TOKEN, config, owner, repo, cli, info, gitCalls,
                   response, net, putResult, getResult>>

Next == Start \/ GitReturns \/ PromptReturns \/ PutReturns \/ GetReturns \/ Interrupt

Spec == Init /\ [][Next]_vars

(***************************************************************************)
(* Vocabulary of the properties.                                           *)
(***************************************************************************)
Puts == Cardinality({i \in 1..Len(net) : net[i].method = "PUT"})

Gets == Cardinality({i \in 1..Len(net) : net[i].method = "GET"})

Printed(line) == line \in Range(out)

PrintedText(marker, text) == \E i \in 1..Len(out) : out[i][1] = marker /\ out[i][2] = text

Interrupted == exc = "KeyboardInterrupt"

\* "y" and "yes" in every mix of upper and lower case
AffirmativeTokens ==
    { <<a>> : a \in {"y", "Y"} }
    \cup { <<a, b, c>> : a \in {"y", "Y"}, b \in {"e", "E"}, c \in {"s", "S"} }

Declined == response.kind = "line" /\ response.text \notin AffirmativeTokens

UsagePrinted ==
    /\ PrintedText("error", "Unable to detect repository. Please set GITHUB_OWNER and GITHUB_REPO")
    /\ PrintedText("plain", "Usage:")

AuthDiagnostic == PrintedText("error", "Authentication failed. Check your GITHUB_TOKEN.")

PermissionDiagnostic ==
    PrintedText("error", "Permission denied. You need admin access to this repository.")

NotFoundDiagnostic == PrintedText("error", "Repository or branch not found: ")

GenericDiagnostic ==
    /\ Printed(<<"error", "Failed with status code: ", ToString(putResult.status)>>)
    /\ Printed(<<"error", "Response: ", putResult.text>>)

TransportDiagnostic == PrintedText("error", "Request failed: ")

ApplySuccessReported == PrintedText("success", "Branch protection applied successfully!")

\* exactly the diagnostics of `wanted` were printed, none of the others
OnlyDiagnostics(wanted) ==
    /\ AuthDiagnostic <=> "auth" \in wanted
    /\ PermissionDiagnostic <=> "permission" \in wanted
    /\ NotFoundDiagnostic <=> "notfound" \in wanted
    /\ PrintedText("error", "Failed with status code: ") <=> "generic" \in wanted
    /\ TransportDiagnostic <=> "transport" \in wanted
    /\ ApplySuccessReported <=> "success" \in wanted

WarningPrinted == \E i \in 1..Len(out) : out[i][1] = "warning"

(***************************************************************************)
(* C1.  With an empty GITHUB_TOKEN no HTTP request is ever issued and the  *)
(* process exits with a non-zero code.                                     *)
(***************************************************************************)
\* C1 as stated: empty token => no request, and every finished run has a
\* non-zero exit code
C1_NoTokenAlwaysNonZero ==
    GITHUB_TOKEN = "" => /\ net = <<>>
                         /\ pc = "done" => exitCode # 0

\* C1 amended: empty token => no request; a finished run has a non-zero
\* exit code unless it was interrupted, and it can only have been interrupted
\* while blocked in the git subprocess, in which case the code is 0
C1_NoTokenNoRequest ==
    GITHUB_TOKEN = "" =>
        /\ net = <<>>
        /\ pc \notin {"prompt", "put", "get"}
        /\ pc = "done" /\ ~Interrupted => exitCode # 0
        /\ pc = "done" /\ Interrupted => exitCode = 0 /\ gitCalls = 1 /\ cli = NoCli

C1_Witness ==
    /\ GITHUB_TOKEN = ""
    /\ pc = "done"
    /\ exitCode = 1
    /\ owner # EMPTY /\ repo # EMPTY
    /\ PrintedText("error", "GITHUB_TOKEN environment variable not set")

(***************************************************************************)
(* C2.  When the line read at the prompt is anything but "y" or "yes" (in  *)
(* any case), no HTTP request is issued and the process exits with code 0. *)
(***************************************************************************)
C2_DeclineExitsZero ==
    Declined => /\ net = <<>>
                /\ pc = "done"
                /\ exitCode = 0
                /\ ~traceback
                /\ Printed(print_warning("Cancelled"))

C2_Witness == Declined /\ response.text = <<"y","e">> /\ pc = "done"

(***************************************************************************)
(* C3.  The PUT result decides the apply outcome: 200 reports success and  *)
(* the GET is issued; 401, 403, 404 print their own diagnostic, any other  *)
(* status the generic one with the status and the body, a transport        *)
(* failure its own; every non-200 result ends the run with a non-zero exit *)
(* code and no GET.                                                        *)
(***************************************************************************)
C3_ApplyOutcome ==
    putResult.kind # "none" =>
        IF putResult.kind = "RequestException"
        THEN OnlyDiagnostics({"transport"}) /\ pc = "done" /\ exitCode # 0 /\ Gets = 0
        ELSE IF putResult.status = 200
        THEN OnlyDiagnostics({"success"}) /\ Gets = 1
        ELSE /\ pc = "done" /\ exitCode # 0 /\ Gets = 0
             /\ CASE putResult.status = 401 -> OnlyDiagnostics({"auth"})
                  [] putResult.status = 403 -> OnlyDiagnostics({"permission"})
                  [] putResult.status = 404 -> OnlyDiagnostics({"notfound"})
                  [] OTHER -> OnlyDiagnostics({"generic"}) /\ GenericDiagnostic

C3_Witness ==
    /\ putResult.kind = "response" /\ putResult.status = 403
    /\ pc = "done" /\ exitCode = 1 /\ PermissionDiagnostic

(***************************************************************************)
(* C4.  After a PUT answered 200, a failed verification (transport         *)
(* failure, non-200 status, unparseable body or body of another shape) is  *)
(* printed as a warning and the process exits with code 0.                 *)
(***************************************************************************)
VerificationFailed ==
    /\ getResult.kind # "none"
    /\ \/ getResult.kind = "RequestException"
       \/ getResult.status # 200
       \/ getResult.body \in {"unparseable", "array", "flat_flags", "null_checks"}

C4_VerifyFailureNonFatal ==
    (putResult.status = 200 /\ VerificationFailed) =>
        pc = "done" /\ exitCode = 0 /\ ~traceback /\ WarningPrinted

(***************************************************************************)
(* C5.  For a remote URL https://<host>/<owner>/<repo>[.git] or            *)
(* git@<host>:<owner>/<repo>[.git], get_repo_info returns (owner, repo).   *)
(***************************************************************************)
C5_ExtractsOwnerRepo ==
    (cli.kind = "ok" /\ cli.form \in {"https", "ssh"}) =>
        info = ReturnPair(cli.owner, cli.repo)

(***************************************************************************)
(* C6.  When git fails or the remote URL is of no recognized form,         *)
(* get_repo_info returns an empty pair and does not raise; main then       *)
(* prints the usage message and exits non-zero without any HTTP request.   *)
(***************************************************************************)
C6_ResolutionFailsByReturning ==
    (cli.kind \in {"CalledProcessError", "FileNotFoundError"}
        \/ (cli.kind = "ok" /\ cli.form = "other")) =>
        /\ info.raised = ""
        /\ info.owner = EMPTY /\ info.repo = EMPTY
        /\ pc = "done" /\ exitCode # 0 /\ ~traceback
        /\ UsagePrinted
        /\ net = <<>>

(***************************************************************************)
(* C7.  A KeyboardInterrupt delivered while the run is blocked (git        *)
(* subprocess, prompt, PUT, GET) ends it with the cancellation notice, no  *)
(* stack trace and exit code 0.                                            *)
(***************************************************************************)
C7_InterruptCleanAbort ==
    Interrupted => /\ pc = "done"
                   /\ exitCode = 0
                   /\ ~traceback
                   /\ out # <<>> /\ out[Len(out)] = print_warning("Cancelled by user")

C7_Witness == Interrupted /\ Puts = 1 /\ putResult.kind = "none" /\ pc = "done"

(***************************************************************************)
(* C8.  PROTECTION_CONFIG is never changed, and the body of every PUT is   *)
(* exactly that record, whatever the owner, repo and token.                *)
(***************************************************************************)
C8_PutBodyIsStaticPolicy ==
    /\ config = PROTECTION_CONFIG
    /\ \A i \in 1..Len(net) : net[i].method = "PUT" => net[i].json = PROTECTION_CONFIG

C8_Witness ==
    /\ Puts = 1
    /\ owner = <<"o","c","t","o">>
    /\ net[1].url = ProtectionUrl(owner, repo, BRANCH)
    /\ net[1].json = PROTECTION_CONFIG

(***************************************************************************)
(* C9.  At most one PUT and one GET per run; the PUT only with resolved    *)
(* coordinates, a token and an affirmative answer; the GET only after the  *)
(* PUT was answered 200.                                                   *)
(***************************************************************************)
C9_LinearNoRetry ==
    /\ Puts <= 1 /\ Gets <= 1 /\ gitCalls <= 1
    /\ Puts = 1 => /\ net[1].method = "PUT"
                   /\ owner # EMPTY /\ repo # EMPTY
                   /\ GITHUB_TOKEN # ""
                   /\ response.kind = "line" /\ response.text \in AffirmativeTokens
    /\ Gets = 1 => /\ Puts = 1 /\ net[2].method = "GET"
                   /\ putResult.kind = "response" /\ putResult.status = 200
    /\ putResult.kind # "none" => Puts = 1
    /\ getResult.kind # "none" => Gets = 1

C9_Witness == Gets = 1 /\ pc = "done" /\ getResult.kind = "response"

(***************************************************************************)
(* C10.  git is not run, and OWNER and REPO are used as they are, exactly  *)
(* when both are non-empty; when one of them is empty detection runs and   *)
(* both coordinates become the pair parsed from the remote URL, or the run *)
(* ends with exit code 1 when detection fails.                             *)
(***************************************************************************)
C10_ExplicitOnlyWhenBoth ==
    pc # "start" =>
        /\ (OWNER # EMPTY /\ REPO # EMPTY) <=> gitCalls = 0
        /\ gitCalls = 0 => owner = OWNER /\ repo = REPO
        /\ (gitCalls = 1 /\ pc # "git" /\ ~Interrupted) =>
              IF info.raised = "" /\ ~info.none /\ info.owner # EMPTY /\ info.repo # EMPTY
              THEN owner = info.owner /\ repo = info.repo
              ELSE pc = "done" /\ exitCode = 1 /\ net = <<>>
        /\ \A i \in 1..Len(net) : net[i].url = ProtectionUrl(owner, repo, BRANCH)

C10_Witness ==
    /\ OWNER = <<"e">> /\ REPO = EMPTY
    /\ gitCalls = 1
    /\ owner = <<"o">> /\ repo = <<"r">>
    /\ Puts = 1

====
